---- MODULE Spec2Model ----
(***************************************************************************)
(* Model of pybox2d-lite: Body, collide, Arbiter, Joint and World.step.    *)
(*                                                                         *)
(* Numbers.  The program computes with float32 tensors, every operation    *)
(* rounding its result to the nearest representable value.  The model      *)
(* computes with decimal fixed-point numbers: the integer x stands for     *)
(* x / Scale, sums are exact, and products, quotients and roots round to   *)
(* the nearest representable value as the float operations do.             *)
(* Vectors are pairs of numbers, matrices are pairs of row vectors.        *)
(* rotation_matrix is exact at rotation 0 only (cos 0 = 1, sin 0 = 0), so  *)
(* a step is taken only from states in which every body has rotation 0.    *)
(***************************************************************************)
EXTENDS Integers, Sequences, FiniteSets

(***************************************************************************)
(* Numbers                                                                 *)
(***************************************************************************)
\* number of representable values per unit: three decimal digits
Scale == 10 * 10 * 10

Abs(n) == IF n < 0 THEN -n ELSE n

\* n / d rounded to the nearest integer, halves away from zero
Round(n, d) ==
    LET q == (Abs(n) + (Abs(d) \div 2)) \div Abs(d)
    IN  IF (n < 0) = (d < 0) THEN q ELSE -q

\* the number n / d
R(n, d) == Round(n * Scale, d)
Zero == 0
One == R(1, 1)
\* float('inf'): above every number the model computes
Inf == 1073741824
IsInf(a) == a = Inf

RNeg(a) == -a
RAdd(a, b) == a + b
RSub(a, b) == a - b
RMul(a, b) == Round(a * b, Scale)
\* a / b; a float division by zero yields an infinity (0 / 0, a NaN, does not
\* occur in the model)
RDiv(a, b) == IF b = 0 THEN (IF a < 0 THEN -Inf ELSE Inf) ELSE Round(a * Scale, b)
RLt(a, b) == a < b
RLe(a, b) == a <= b
RGt(a, b) == a > b
RMax(a, b) == IF a > b THEN a ELSE b
RMin(a, b) == IF a < b THEN a ELSE b
RAbs(a) == Abs(a)

\* torch.sqrt: the representable number nearest below the root
RSqrt(a) == CHOOSE k \in 0..(a + Scale) : k * k <= a * Scale /\ (k + 1) * (k + 1) > a * Scale

(***************************************************************************)
(* Vectors and 2x2 matrices                                                *)
(***************************************************************************)
VZero == <<Zero, Zero>>
VAdd(u, v) == <<RAdd(u[1], v[1]), RAdd(u[2], v[2])>>
VSub(u, v) == <<RSub(u[1], v[1]), RSub(u[2], v[2])>>
VNeg(u) == <<RNeg(u[1]), RNeg(u[2])>>
VScale(s, u) == <<RMul(s, u[1]), RMul(s, u[2])>>
VAbs(u) == <<RAbs(u[1]), RAbs(u[2])>>
Dot(u, v) == RAdd(RMul(u[1], v[1]), RMul(u[2], v[2]))

MatVec(m, v) == <<Dot(m[1], v), Dot(m[2], v)>>
Transpose(m) == <<<<m[1][1], m[2][1]>>, <<m[1][2], m[2][2]>>>>
Col(m, j) == <<m[1][j], m[2][j]>>
MatMul(a, b) ==
    <<<<Dot(a[1], Col(b, 1)), Dot(a[1], Col(b, 2))>>,
      <<Dot(a[2], Col(b, 1)), Dot(a[2], Col(b, 2))>>>>
MatAbs(m) == <<VAbs(m[1]), VAbs(m[2])>>
MatAdd(a, b) == <<VAdd(a[1], b[1]), VAdd(a[2], b[2])>>
Identity == <<<<One, Zero>>, <<Zero, One>>>>
MatInverse(k) ==
    LET det == RSub(RMul(k[1][1], k[2][2]), RMul(k[1][2], k[2][1]))
    IN  <<<<RDiv(k[2][2], det), RNeg(RDiv(k[1][2], det))>>,
          <<RNeg(RDiv(k[2][1], det)), RDiv(k[1][1], det)>>>>

\* math_utils.cross, one operator per argument shape
cross_vv(a, b) == RSub(RMul(a[1], b[2]), RMul(a[2], b[1]))
cross_vs(a, b) == <<RMul(b, a[2]), RMul(RNeg(b), a[1])>>
cross_sv(a, b) == <<RMul(RNeg(a), b[2]), RMul(a, b[1])>>

(***************************************************************************)
(* Body                                                                    *)
(***************************************************************************)
Body(width, mass) ==
    [width            |-> width,
     mass             |-> mass,
     position         |-> VZero,
     rotation         |-> Zero,
     velocity         |-> VZero,
     angular_velocity |-> Zero,
     force            |-> VZero,
     torque           |-> Zero,
     friction         |-> R(1, 5),
     inv_mass         |-> IF ~IsInf(mass) THEN RDiv(One, mass) ELSE Zero,
     I                |-> IF ~IsInf(mass)
                          THEN RDiv(RMul(mass, Dot(width, width)), R(12, 1))
                          ELSE Inf,
     inv_I            |-> IF ~IsInf(mass)
                          THEN RDiv(One, RDiv(RMul(mass, Dot(width, width)), R(12, 1)))
                          ELSE Zero]

add_force(b, f) == [b EXCEPT !.force = VAdd(b.force, f)]

\* angles whose cosine and sine, rounded to the model's digits, are the legs
\* of the 3-4-5 triangle: atan(4 / 3), its negative and atan(3 / 4); the model
\* evaluates torch.cos and torch.sin at 0 and at these angles only
Angle_4_3 == R(927, 1000)
Angle_3_4 == R(644, 1000)
cos(a) == IF a = Zero THEN One
          ELSE IF a = Angle_4_3 \/ a = RNeg(Angle_4_3) THEN R(3, 5)
          ELSE IF a = Angle_3_4 THEN R(4, 5)
          ELSE CHOOSE c \in {} : TRUE
sin(a) == IF a = Zero THEN Zero
          ELSE IF a = Angle_4_3 THEN R(4, 5)
          ELSE IF a = RNeg(Angle_4_3) THEN RNeg(R(4, 5))
          ELSE IF a = Angle_3_4 THEN R(3, 5)
          ELSE CHOOSE c \in {} : TRUE

rotation_matrix(b) ==
    <<<<cos(b.rotation), RNeg(sin(b.rotation))>>,
      <<sin(b.rotation), cos(b.rotation)>>>>

(***************************************************************************)
(* collide: separating axis test and clipping (collide.py)                 *)
(***************************************************************************)
NO_EDGE == 0
EDGE_1 == 1
EDGE_2 == 2
EDGE_3 == 3
EDGE_4 == 4

\* Edges is <<in_edge_1, out_edge_1, in_edge_2, out_edge_2>>
Edges == <<NO_EDGE, NO_EDGE, NO_EDGE, NO_EDGE>>
flip(e) == <<e[3], e[4], e[1], e[2]>>

ClipVertex(v, e) == [v |-> v, edges |-> e]

Contact ==
    [Pn |-> Zero, Pt |-> Zero, Pnb |-> Zero,
     position |-> VZero, normal |-> VZero, r1 |-> VZero, r2 |-> VZero,
     separation |-> Zero, mass_normal |-> Zero, mass_tangent |-> Zero,
     bias |-> Zero, edges |-> Edges]

\* a clip that adds the interpolated vertex whenever the two distances differ
clip_segment_to_line_always_cuts(v_in, normal, offset, clip_edge) ==
    LET distance_0 == RSub(Dot(normal, v_in[1].v), offset)
        distance_1 == RSub(Dot(normal, v_in[2].v), offset)
        keep_0 == IF RLe(distance_0, Zero) THEN <<v_in[1]>> ELSE <<>>
        keep_1 == IF RLe(distance_1, Zero) THEN <<v_in[2]>> ELSE <<>>
        interp == RDiv(distance_0, RSub(distance_0, distance_1))
        new_v  == VAdd(v_in[1].v, VScale(interp, VSub(v_in[2].v, v_in[1].v)))
        e0     == v_in[1].edges
        e1     == v_in[2].edges
        cut == IF distance_0 # distance_1
               THEN IF RGt(distance_0, Zero)
                    THEN <<ClipVertex(new_v, <<clip_edge, e0[2], NO_EDGE, e0[4]>>)>>
                    ELSE <<ClipVertex(new_v, <<e1[1], clip_edge, e1[3], NO_EDGE>>)>>
               ELSE <<>>
    IN  keep_0 \o keep_1 \o cut

\* clip_segment_to_line; the assertion on len(v_out) is a property of the result
clip_segment_to_line(v_in, normal, offset, clip_edge) ==
    LET distance_0 == RSub(Dot(normal, v_in[1].v), offset)
        distance_1 == RSub(Dot(normal, v_in[2].v), offset)
        keep_0 == IF RLe(distance_0, Zero) THEN <<v_in[1]>> ELSE <<>>
        keep_1 == IF RLe(distance_1, Zero) THEN <<v_in[2]>> ELSE <<>>
        interp == RDiv(distance_0, RSub(distance_0, distance_1))
        new_v  == VAdd(v_in[1].v, VScale(interp, VSub(v_in[2].v, v_in[1].v)))
        e0     == v_in[1].edges
        e1     == v_in[2].edges
        cut == IF RLt(RMul(distance_0, distance_1), Zero)
               THEN IF RGt(distance_0, Zero)
                    THEN <<ClipVertex(new_v, <<clip_edge, e0[2], NO_EDGE, e0[4]>>)>>
                    ELSE <<ClipVertex(new_v, <<e1[1], clip_edge, e1[3], NO_EDGE>>)>>
               ELSE <<>>
    IN  keep_0 \o keep_1 \o cut

compute_incident_edge(h, pos, rot, normal) ==
    LET hx == h[1]
        hy == h[2]
        \* the edge of the box that faces against the normal n, in box coordinates
        edge(n, n_abs) ==
            IF RGt(n_abs[1], n_abs[2])
            THEN IF RGt(n[1], Zero)
                 THEN <<ClipVertex(<<hx, RNeg(hy)>>, <<NO_EDGE, NO_EDGE, EDGE_3, EDGE_4>>),
                        ClipVertex(h, <<NO_EDGE, NO_EDGE, EDGE_4, EDGE_1>>)>>
                 ELSE <<ClipVertex(<<RNeg(hx), hy>>, <<NO_EDGE, NO_EDGE, EDGE_1, EDGE_2>>),
                        ClipVertex(VNeg(h), <<NO_EDGE, NO_EDGE, EDGE_2, EDGE_3>>)>>
            ELSE IF RGt(n[2], Zero)
                 THEN <<ClipVertex(h, <<NO_EDGE, NO_EDGE, EDGE_4, EDGE_1>>),
                        ClipVertex(<<RNeg(hx), hy>>, <<NO_EDGE, NO_EDGE, EDGE_1, EDGE_2>>)>>
                 ELSE <<ClipVertex(VNeg(h), <<NO_EDGE, NO_EDGE, EDGE_2, EDGE_3>>),
                        ClipVertex(<<hx, RNeg(hy)>>, <<NO_EDGE, NO_EDGE, EDGE_3, EDGE_4>>)>>
        \* the edge c moved to world coordinates
        placed(c) == <<ClipVertex(VAdd(pos, MatVec(rot, c[1].v)), c[1].edges),
                       ClipVertex(VAdd(pos, MatVec(rot, c[2].v)), c[2].edges)>>
        facing(n) == placed(edge(n, VAbs(n)))
    IN  facing(VNeg(MatVec(Transpose(rot), normal)))

FACE_A_X == 1
FACE_A_Y == 2
FACE_B_X == 3
FACE_B_Y == 4
relative_tol == R(95, 100)
absolute_tol == R(1, 100)

\* the four projected face gaps <<face_a[0], face_a[1], face_b[0], face_b[1]>>
face_gaps(body_a, body_b) ==
    LET h_a == VScale(R(1, 2), body_a.width)
        h_b == VScale(R(1, 2), body_b.width)
        rot_a == rotation_matrix(body_a)
        rot_b == rotation_matrix(body_b)
        dp == VSub(body_b.position, body_a.position)
        d_a == MatVec(Transpose(rot_a), dp)
        d_b == MatVec(Transpose(rot_b), dp)
        gaps(face_a, face_b) == <<face_a[1], face_a[2], face_b[1], face_b[2]>>
        faces(abs_C) == gaps(VSub(VSub(VAbs(d_a), h_a), MatVec(abs_C, h_b)),
                             VSub(VSub(VAbs(d_b), MatVec(Transpose(abs_C), h_a)), h_b))
    IN  faces(MatAbs(MatMul(Transpose(rot_a), rot_b)))

\* best axis: [axis, separation, normal], later candidates override with bias;
\* f is face_gaps(body_a, body_b)
best_axis(body_a, body_b, f) ==
    LET h_a == VScale(R(1, 2), body_a.width)
        h_b == VScale(R(1, 2), body_b.width)
        rot_a == rotation_matrix(body_a)
        rot_b == rotation_matrix(body_b)
        dp == VSub(body_b.position, body_a.position)
        d_a == MatVec(Transpose(rot_a), dp)
        d_b == MatVec(Transpose(rot_b), dp)
        Over(cur, ax, gap, hh, nrm) ==
            IF RGt(gap, RAdd(RMul(relative_tol, cur.separation), RMul(absolute_tol, hh)))
            THEN [axis |-> ax, separation |-> gap, normal |-> nrm]
            ELSE cur
        s0 == [axis |-> FACE_A_X, separation |-> f[1],
               normal |-> IF RGt(d_a[1], Zero) THEN Col(rot_a, 1) ELSE VNeg(Col(rot_a, 1))]
        s1 == Over(s0, FACE_A_Y, f[2], h_a[2],
                   IF RGt(d_a[2], Zero) THEN Col(rot_a, 2) ELSE VNeg(Col(rot_a, 2)))
        s2 == Over(s1, FACE_B_X, f[3], h_b[1],
                   IF RGt(d_b[1], Zero) THEN Col(rot_b, 1) ELSE VNeg(Col(rot_b, 1)))
        s3 == Over(s2, FACE_B_Y, f[4], h_b[2],
                   IF RGt(d_b[2], Zero) THEN Col(rot_b, 2) ELSE VNeg(Col(rot_b, 2)))
    IN  s3

\* clipping plane data of the reference face and the incident edge
reference_face(body_a, body_b, best) ==
    LET h_a == VScale(R(1, 2), body_a.width)
        h_b == VScale(R(1, 2), body_b.width)
        pos_a == body_a.position
        pos_b == body_b.position
        rot_a == rotation_matrix(body_a)
        rot_b == rotation_matrix(body_b)
        axis == best.axis
        onA == axis \in {FACE_A_X, FACE_A_Y}
        isX == axis \in {FACE_A_X, FACE_B_X}
        front_normal == IF onA THEN best.normal ELSE VNeg(best.normal)
        h_ref == IF onA THEN h_a ELSE h_b
        pos_ref == IF onA THEN pos_a ELSE pos_b
        rot_ref == IF onA THEN rot_a ELSE rot_b
        side_normal == IF isX THEN Col(rot_ref, 2) ELSE Col(rot_ref, 1)
        side == Dot(pos_ref, side_normal)
        h_side == IF isX THEN h_ref[2] ELSE h_ref[1]
    IN  [front_normal |-> front_normal,
         front |-> RAdd(Dot(pos_ref, front_normal), IF isX THEN h_ref[1] ELSE h_ref[2]),
         side_normal |-> side_normal,
         neg_side |-> RAdd(RNeg(side), h_side),
         pos_side |-> RAdd(side, h_side),
         neg_edge |-> IF isX THEN EDGE_3 ELSE EDGE_2,
         pos_edge |-> IF isX THEN EDGE_1 ELSE EDGE_4,
         incident_edge |-> IF onA
                           THEN compute_incident_edge(h_b, pos_b, rot_b, front_normal)
                           ELSE compute_incident_edge(h_a, pos_a, rot_a, front_normal)]

RECURSIVE clipped_contacts(_, _, _, _)
clipped_contacts(cps, ref, best, k) ==
    IF k > Len(cps) THEN <<>>
    ELSE LET cp == cps[k]
             separation == RSub(Dot(ref.front_normal, cp.v), ref.front)
             rest == clipped_contacts(cps, ref, best, k + 1)
         IN  IF RLe(separation, Zero)
             THEN <<[Contact EXCEPT
                       !.separation = separation,
                       !.normal = best.normal,
                       !.position = VSub(cp.v, VScale(separation, ref.front_normal)),
                       !.edges = IF best.axis \in {FACE_B_X, FACE_B_Y}
                                 THEN flip(cp.edges) ELSE cp.edges]>> \o rest
             ELSE rest

\* the clipped points turned into contacts whatever the sign of their separation
RECURSIVE unfiltered_contacts(_, _, _, _)
unfiltered_contacts(cps, ref, best, k) ==
    IF k > Len(cps) THEN <<>>
    ELSE <<[Contact EXCEPT
              !.separation = RSub(Dot(ref.front_normal, cps[k].v), ref.front),
              !.normal = best.normal,
              !.position = cps[k].v,
              !.edges = cps[k].edges]>> \o unfiltered_contacts(cps, ref, best, k + 1)

\* a collide with no separation test: no early exit on a positive face gap
\* and no sign test on the clipped points
collide_without_separation_test(body_a, body_b) ==
    LET to_contacts(clip_points_2, ref, best) ==
            IF Len(clip_points_2) < 2 THEN <<>>
            ELSE unfiltered_contacts(clip_points_2, ref, best, 1)
        clip_pos_side(clip_points_1, ref, best) ==
            IF Len(clip_points_1) < 2 THEN <<>>
            ELSE to_contacts(clip_segment_to_line(clip_points_1, ref.side_normal,
                                                  ref.pos_side, ref.pos_edge),
                             ref, best)
        clip_neg_side(ref, best) ==
            clip_pos_side(clip_segment_to_line(ref.incident_edge, VNeg(ref.side_normal),
                                               ref.neg_side, ref.neg_edge),
                          ref, best)
        clip(best) == clip_neg_side(reference_face(body_a, body_b, best), best)
    IN  clip(best_axis(body_a, body_b, face_gaps(body_a, body_b)))

\* the stages of collide, each one taking what the stage before it computed
collide(body_a, body_b) ==
    LET to_contacts(clip_points_2, ref, best) ==
            IF Len(clip_points_2) < 2 THEN <<>>
            ELSE clipped_contacts(clip_points_2, ref, best, 1)
        clip_pos_side(clip_points_1, ref, best) ==
            IF Len(clip_points_1) < 2 THEN <<>>
            ELSE to_contacts(clip_segment_to_line(clip_points_1, ref.side_normal,
                                                  ref.pos_side, ref.pos_edge),
                             ref, best)
        clip_neg_side(ref, best) ==
            clip_pos_side(clip_segment_to_line(ref.incident_edge, VNeg(ref.side_normal),
                                               ref.neg_side, ref.neg_edge),
                          ref, best)
        clip(best) == clip_neg_side(reference_face(body_a, body_b, best), best)
        separating_axis_test(f) ==
            IF RGt(f[1], Zero) \/ RGt(f[2], Zero) THEN <<>>
            ELSE IF RGt(f[3], Zero) \/ RGt(f[4], Zero) THEN <<>>
            ELSE clip(best_axis(body_a, body_b, f))
    IN  separating_axis_test(face_gaps(body_a, body_b))

(***************************************************************************)
(* State                                                                   *)
(***************************************************************************)
VARIABLES
    bodies,               \* World.bodies, in insertion order
    joints,               \* World.joints, in insertion order
    arbiters,             \* World.arbiters, in dict (insertion) order
    ident,                \* ident[i]: rank of id(bodies[i]) among the bodies
    gravity,              \* World.gravity
    iterations,           \* World.iterations
    WARM_STARTING,        \* settings.WARM_STARTING
    ACCUMULATE_IMPULSES,  \* settings.ACCUMULATE_IMPULSES
    POSITION_CORRECTION,  \* settings.POSITION_CORRECTION
    pc,                   \* position of the caller inside World.step
    dt,                   \* argument of the running World.step
    round,                \* solver rounds completed in the running step
    steps,                \* World.step calls completed
    edits,                \* caller writes to body fields done
    prev_arbiters,        \* history: World.arbiters when the last step began
    prev_forces,          \* history: each body's force and torque at that time
    call                  \* a call of one function on its own: name, arguments, result

vars == <<bodies, joints, arbiters, ident, gravity, iterations, WARM_STARTING,
          ACCUMULATE_IMPULSES, POSITION_CORRECTION, pc, dt, round, steps, edits,
          prev_arbiters, prev_forces, call>>

(***************************************************************************)
(* Arbiter (arbiter.py)                                                    *)
(***************************************************************************)
\* a key that keeps the bodies in the order they were given
ArbiterKey_as_given(id, i, j) == <<i, j>>

\* ArbiterKey.__init__ / Arbiter.__init__: the pair ordered by id()
ArbiterKey(id, i, j) == IF id[i] < id[j] THEN <<i, j>> ELSE <<j, i>>

\* ArbiterKey.__eq__: Body defines no __eq__, so bodies compare by identity
ArbiterKey_eq(k1, k2) == k1[1] = k2[1] /\ k1[2] = k2[2]

\* ArbiterKey.__hash__: the hash of the tuple (body_1, body_2), a function of
\* the two bodies' own hashes (which derive from id()) in that order
ArbiterKey_hash(id, k) == <<id[k[1]], id[k[2]]>>

Arbiter(id, bs, i, j) ==
    LET k == ArbiterKey(id, i, j)
    IN  [body_1   |-> k[1],
         body_2   |-> k[2],
         contacts |-> collide(bs[k[1]], bs[k[2]]),
         friction |-> RSqrt(RMul(bs[k[1]].friction, bs[k[2]].friction))]

\* a search loop without its break: c_old always ends as the last old contact
c_old_index_no_break(old, c_new) == Len(old)

\* the value of c_old when the search loop of update ends: the first old
\* contact with equal edges, else the loop variable's last value; 0 is None
c_old_index(old, c_new) ==
    IF \E k \in 1..Len(old) : old[k].edges = c_new.edges
    THEN CHOOSE k \in 1..Len(old) :
            /\ old[k].edges = c_new.edges
            /\ \A m \in 1..(k - 1) : old[m].edges # c_new.edges
    ELSE Len(old)

merge_contact(old, c_new) ==
    LET merged(k) ==
            IF k # 0
            THEN IF WARM_STARTING
                 THEN [c_new EXCEPT !.Pn = old[k].Pn, !.Pt = old[k].Pt, !.Pnb = old[k].Pnb]
                 ELSE [c_new EXCEPT !.Pn = Zero, !.Pt = Zero, !.Pnb = Zero]
            ELSE c_new
    IN  merged(c_old_index(old, c_new))

update(arb, new_contacts) ==
    [arb EXCEPT !.contacts =
        [n \in 1..Len(new_contacts) |-> merge_contact(arb.contacts, new_contacts[n])]]

k_allowed_penetration == R(1, 100)
k_bias_factor == IF POSITION_CORRECTION THEN R(2, 10) ELSE Zero

\* an impulse P that is added to body_2 and never taken from body_1
apply_pair_one_sided(bs, i1, i2, r1, r2, P) ==
    [bs EXCEPT ![i2] = [bs[i2] EXCEPT
                          !.velocity = VAdd(@, VScale(bs[i2].inv_mass, P)),
                          !.angular_velocity = RAdd(@, RMul(bs[i2].inv_I, cross_vv(r2, P)))]]

\* an impulse P at offsets r1, r2: subtracted from body_1, added to body_2
apply_pair(bs, i1, i2, r1, r2, P) ==
    LET b1 == [bs[i1] EXCEPT
                 !.velocity = VSub(@, VScale(bs[i1].inv_mass, P)),
                 !.angular_velocity = RSub(@, RMul(bs[i1].inv_I, cross_vv(r1, P)))]
        bs1 == [bs EXCEPT ![i1] = b1]
        b2 == [bs1[i2] EXCEPT
                 !.velocity = VAdd(@, VScale(bs1[i2].inv_mass, P)),
                 !.angular_velocity = RAdd(@, RMul(bs1[i2].inv_I, cross_vv(r2, P)))]
    IN  [bs1 EXCEPT ![i2] = b2]

\* body of the loop of Arbiter.pre_step for contact c: [c, bodies]
pre_step_contact(arb, bs, c, inv_dt) ==
    LET b1 == bs[arb.body_1]
        b2 == bs[arb.body_2]
        r1 == VSub(c.position, b1.position)
        r2 == VSub(c.position, b2.position)
        rn1 == Dot(r1, c.normal)
        rn2 == Dot(r2, c.normal)
        k_normal == RAdd(RAdd(b1.inv_mass, b2.inv_mass),
                         RAdd(RMul(b1.inv_I, RSub(Dot(r1, r1), RMul(rn1, rn1))),
                              RMul(b2.inv_I, RSub(Dot(r2, r2), RMul(rn2, rn2)))))
        tangent == cross_vs(c.normal, One)
        rt1 == Dot(r1, tangent)
        rt2 == Dot(r2, tangent)
        k_tangent == RAdd(RAdd(b1.inv_mass, b2.inv_mass),
                          RAdd(RMul(b1.inv_I, RSub(Dot(r1, r1), RMul(rt1, rt1))),
                               RMul(b2.inv_I, RSub(Dot(r2, r2), RMul(rt2, rt2)))))
        bias == RMul(RMul(RNeg(k_bias_factor), inv_dt),
                     RMin(Zero, RAdd(c.separation, k_allowed_penetration)))
        P == VAdd(VScale(c.Pn, c.normal), VScale(c.Pt, tangent))
    IN  [c  |-> [c EXCEPT !.mass_normal = RDiv(One, k_normal),
                          !.mass_tangent = RDiv(One, k_tangent),
                          !.bias = bias],
         bs |-> IF ACCUMULATE_IMPULSES
                THEN apply_pair(bs, arb.body_1, arb.body_2, r1, r2, P)
                ELSE bs]

\* the accumulated normal impulse without its clamp at 0
clamp_normal_unclamped(Pn_0, d_Pn) ==
    IF ACCUMULATE_IMPULSES
    THEN [Pn |-> RAdd(Pn_0, d_Pn), d_Pn |-> d_Pn]
    ELSE [Pn |-> Pn_0, d_Pn |-> RMax(d_Pn, Zero)]

\* clamp of the normal impulse: [Pn, d_Pn]
clamp_normal(Pn_0, d_Pn) ==
    IF ACCUMULATE_IMPULSES
    THEN [Pn |-> RMax(RAdd(Pn_0, d_Pn), Zero),
          d_Pn |-> RSub(RMax(RAdd(Pn_0, d_Pn), Zero), Pn_0)]
    ELSE [Pn |-> Pn_0, d_Pn |-> RMax(d_Pn, Zero)]

\* the friction impulse without its clamp to the cone
clamp_friction_unclamped(friction, Pn, d_Pn, Pt_0, d_Pt) ==
    IF ACCUMULATE_IMPULSES
    THEN [Pt |-> RAdd(Pt_0, d_Pt), d_Pt |-> d_Pt]
    ELSE [Pt |-> Pt_0, d_Pt |-> d_Pt]

\* clamp of the friction impulse: [Pt, d_Pt]
clamp_friction(friction, Pn, d_Pn, Pt_0, d_Pt) ==
    IF ACCUMULATE_IMPULSES
    THEN LET max_Pt == RMul(friction, Pn)
             Pt == RMin(RMax(RAdd(Pt_0, d_Pt), RNeg(max_Pt)), max_Pt)
         IN  [Pt |-> Pt, d_Pt |-> RSub(Pt, Pt_0)]
    ELSE LET max_Pt == RMul(friction, d_Pn)
         IN  [Pt |-> Pt_0, d_Pt |-> RMin(RMax(d_Pt, RNeg(max_Pt)), max_Pt)]

\* relative velocity at the contact
contact_dv(b1, b2, r1, r2) ==
    VSub(VSub(VAdd(b2.velocity, cross_sv(b2.angular_velocity, r2)), b1.velocity),
         cross_sv(b1.angular_velocity, r1))

\* body of the loop of Arbiter.apply_impulse for contact c: [c, bodies]
apply_impulse_contact(arb, bs, c) ==
    LET i1 == arb.body_1
        i2 == arb.body_2
        r1 == VSub(c.position, bs[i1].position)
        r2 == VSub(c.position, bs[i2].position)
        vn == Dot(contact_dv(bs[i1], bs[i2], r1, r2), c.normal)
        \* bsn: the bodies after the normal impulse n; t: the friction impulse
        friction_applied(n, bsn, tangent, t) ==
            [c  |-> [c EXCEPT !.r1 = r1, !.r2 = r2, !.Pn = n.Pn, !.Pt = t.Pt],
             bs |-> apply_pair(bsn, i1, i2, r1, r2, VScale(t.d_Pt, tangent))]
        friction_impulse(n, bsn, tangent) ==
            friction_applied(n, bsn, tangent,
                clamp_friction(arb.friction, n.Pn, n.d_Pn, c.Pt,
                    RMul(c.mass_tangent,
                         RNeg(Dot(contact_dv(bsn[i1], bsn[i2], r1, r2), tangent)))))
        normal_applied(n) ==
            friction_impulse(n, apply_pair(bs, i1, i2, r1, r2, VScale(n.d_Pn, c.normal)),
                             cross_vs(c.normal, One))
    IN  normal_applied(clamp_normal(c.Pn, RMul(c.mass_normal, RAdd(RNeg(vn), c.bias))))

\* the loop over arb.contacts of pre_step or apply_impulse, from contact k on
RECURSIVE contact_loop(_, _, _, _, _)
contact_loop(arb, bs, k, inv_dt, which) ==
    IF k > Len(arb.contacts) THEN [arb |-> arb, bs |-> bs]
    ELSE LET next(r) ==
                 contact_loop([arb EXCEPT !.contacts[k] = r.c], r.bs, k + 1, inv_dt, which)
         IN  next(IF which = "pre_step"
                  THEN pre_step_contact(arb, bs, arb.contacts[k], inv_dt)
                  ELSE apply_impulse_contact(arb, bs, arb.contacts[k]))

Arbiter_pre_step(arb, bs, inv_dt) == contact_loop(arb, bs, 1, inv_dt, "pre_step")
Arbiter_apply_impulse(arb, bs) == contact_loop(arb, bs, 1, Zero, "apply_impulse")

(***************************************************************************)
(* Joint (joint.py)                                                        *)
(***************************************************************************)
\* a constructor that turns the offsets by the rotation, not by its transpose
Joint_untransposed(bs, i1, i2, anchor) ==
    [body_1 |-> i1,
     body_2 |-> i2,
     M |-> <<VZero, VZero>>,
     P |-> VZero,
     r1 |-> VZero,
     r2 |-> VZero,
     bias |-> VZero,
     softness |-> Zero,
     bias_factor |-> R(2, 10),
     local_anchor_1 |-> MatVec(rotation_matrix(bs[i1]), VSub(anchor, bs[i1].position)),
     local_anchor_2 |-> MatVec(rotation_matrix(bs[i2]), VSub(anchor, bs[i2].position))]

Joint(bs, i1, i2, anchor) ==
    [body_1 |-> i1,
     body_2 |-> i2,
     M |-> <<VZero, VZero>>,
     P |-> VZero,
     r1 |-> VZero,
     r2 |-> VZero,
     bias |-> VZero,
     softness |-> Zero,
     bias_factor |-> R(2, 10),
     local_anchor_1 |-> MatVec(Transpose(rotation_matrix(bs[i1])),
                               VSub(anchor, bs[i1].position)),
     local_anchor_2 |-> MatVec(Transpose(rotation_matrix(bs[i2])),
                               VSub(anchor, bs[i2].position))]

\* world-space anchor points p1, p2 of Joint.pre_step
joint_anchors(j, bs) ==
    <<VAdd(bs[j.body_1].position, MatVec(rotation_matrix(bs[j.body_1]), j.local_anchor_1)),
      VAdd(bs[j.body_2].position, MatVec(rotation_matrix(bs[j.body_2]), j.local_anchor_2))>>

\* a pre_step that forgets the accumulated impulse whatever WARM_STARTING is
Joint_pre_step_cold(j, bs, inv_dt) ==
    LET b1 == bs[j.body_1]
        b2 == bs[j.body_2]
        r1 == MatVec(rotation_matrix(b1), j.local_anchor_1)
        r2 == MatVec(rotation_matrix(b2), j.local_anchor_2)
        m == RAdd(b1.inv_mass, b2.inv_mass)
        K1 == <<<<m, Zero>>, <<Zero, m>>>>
        K2 == <<<<RMul(RMul(b1.inv_I, r1[2]), r1[2]), RMul(RMul(RNeg(b1.inv_I), r1[1]), r1[2])>>,
                <<RMul(RMul(RNeg(b1.inv_I), r1[1]), r1[2]), RMul(RMul(b1.inv_I, r1[1]), r1[1])>>>>
        K3 == <<<<RMul(RMul(b2.inv_I, r2[2]), r2[2]), RMul(RMul(RNeg(b2.inv_I), r2[1]), r2[2])>>,
                <<RMul(RMul(RNeg(b2.inv_I), r2[1]), r2[2]), RMul(RMul(b2.inv_I, r2[1]), r2[1])>>>>
        K == MatAdd(MatAdd(MatAdd(K1, K2), K3),
                    <<VScale(j.softness, Identity[1]), VScale(j.softness, Identity[2])>>)
        p == joint_anchors(j, bs)
        dp == VSub(p[2], p[1])
        jj == [j EXCEPT !.r1 = r1, !.r2 = r2, !.M = MatInverse(K),
                        !.bias = IF POSITION_CORRECTION
                                 THEN VScale(RMul(RNeg(j.bias_factor), inv_dt), dp)
                                 ELSE VZero]
    IN  [j |-> [jj EXCEPT !.P = VZero], bs |-> bs]

\* [j, bs] after Joint.pre_step
Joint_pre_step(j, bs, inv_dt) ==
    LET b1 == bs[j.body_1]
        b2 == bs[j.body_2]
        r1 == MatVec(rotation_matrix(b1), j.local_anchor_1)
        r2 == MatVec(rotation_matrix(b2), j.local_anchor_2)
        m == RAdd(b1.inv_mass, b2.inv_mass)
        K1 == <<<<m, Zero>>, <<Zero, m>>>>
        K2 == <<<<RMul(RMul(b1.inv_I, r1[2]), r1[2]), RMul(RMul(RNeg(b1.inv_I), r1[1]), r1[2])>>,
                <<RMul(RMul(RNeg(b1.inv_I), r1[1]), r1[2]), RMul(RMul(b1.inv_I, r1[1]), r1[1])>>>>
        K3 == <<<<RMul(RMul(b2.inv_I, r2[2]), r2[2]), RMul(RMul(RNeg(b2.inv_I), r2[1]), r2[2])>>,
                <<RMul(RMul(RNeg(b2.inv_I), r2[1]), r2[2]), RMul(RMul(b2.inv_I, r2[1]), r2[1])>>>>
        K == MatAdd(MatAdd(MatAdd(K1, K2), K3),
                    <<VScale(j.softness, Identity[1]), VScale(j.softness, Identity[2])>>)
        p == joint_anchors(j, bs)
        dp == VSub(p[2], p[1])
        jj == [j EXCEPT !.r1 = r1, !.r2 = r2, !.M = MatInverse(K),
                        !.bias = IF POSITION_CORRECTION
                                 THEN VScale(RMul(RNeg(j.bias_factor), inv_dt), dp)
                                 ELSE VZero]
    IN  IF WARM_STARTING
        THEN [j |-> jj, bs |-> apply_pair(bs, j.body_1, j.body_2, r1, r2, j.P)]
        ELSE [j |-> [jj EXCEPT !.P = VZero], bs |-> bs]

\* relative velocity used by Joint.apply_impulse
joint_dv(j, bs) ==
    VSub(VAdd(bs[j.body_2].velocity, cross_sv(bs[j.body_2].angular_velocity, j.r2)),
         cross_sv(bs[j.body_1].angular_velocity, j.r1))

\* [j, bs] after Joint.apply_impulse
Joint_apply_impulse(j, bs) ==
    LET dv == joint_dv(j, bs)
        impulse == MatVec(j.M, VSub(VSub(j.bias, dv), VScale(j.softness, j.P)))
    IN  [j  |-> [j EXCEPT !.P = VAdd(j.P, impulse)],
         bs |-> apply_pair(bs, j.body_1, j.body_2, j.r1, j.r2, impulse)]

(***************************************************************************)
(* World (world.py)                                                        *)
(***************************************************************************)
\* index of the arbiter stored under the key of (i, j), 0 when absent
arbiter_index(arbs, id, i, j) ==
    IF \E k \in 1..Len(arbs) : <<arbs[k].body_1, arbs[k].body_2>> = ArbiterKey(id, i, j)
    THEN CHOOSE k \in 1..Len(arbs) : <<arbs[k].body_1, arbs[k].body_2>> = ArbiterKey(id, i, j)
    ELSE 0

Remove(seq, k) == [n \in 1..(Len(seq) - 1) |-> IF n < k THEN seq[n] ELSE seq[n + 1]]

\* a broadphase that never pops an arbiter whose pair stopped touching
broadphase_pair_no_pop(arbs, id, bs, i, j) ==
    LET store(new_arb, k) ==
            IF Len(new_arb.contacts) > 0
            THEN IF k = 0 THEN Append(arbs, new_arb)
                 ELSE [arbs EXCEPT ![k] = update(arbs[k], new_arb.contacts)]
            ELSE arbs
    IN  IF bs[i].inv_mass = Zero /\ bs[j].inv_mass = Zero THEN arbs
        ELSE store(Arbiter(id, bs, i, j), arbiter_index(arbs, id, i, j))

\* body of the inner loop of World.broadphase for the pair (i, j)
broadphase_pair(arbs, id, bs, i, j) ==
    LET store(new_arb, k) ==
            IF Len(new_arb.contacts) > 0
            THEN IF k = 0 THEN Append(arbs, new_arb)
                 ELSE [arbs EXCEPT ![k] = update(arbs[k], new_arb.contacts)]
            ELSE IF k # 0 THEN Remove(arbs, k) ELSE arbs
    IN  IF bs[i].inv_mass = Zero /\ bs[j].inv_mass = Zero THEN arbs
        ELSE store(Arbiter(id, bs, i, j), arbiter_index(arbs, id, i, j))

\* the pairs (i, j), i < j, in the order the two loops visit them, from (i, j) on
RECURSIVE broadphase_from(_, _, _, _, _)
broadphase_from(arbs, id, bs, i, j) ==
    IF i > Len(bs) THEN arbs
    ELSE IF j > Len(bs) THEN broadphase_from(arbs, id, bs, i + 1, i + 2)
    ELSE broadphase_from(broadphase_pair(arbs, id, bs, i, j), id, bs, i, j + 1)

broadphase(arbs, id, bs) == broadphase_from(arbs, id, bs, 1, 2)

inv_dt_of(d) == IF RGt(d, Zero) THEN RDiv(One, d) ELSE Zero

\* force integration without the skip of static bodies
integrate_forces_no_skip(bs, g, d) ==
    [i \in 1..Len(bs) |->
        [bs[i] EXCEPT
            !.velocity = VAdd(@, VScale(d, VAdd(g, VScale(bs[i].inv_mass, bs[i].force)))),
            !.angular_velocity = RAdd(@, RMul(RMul(d, bs[i].inv_I), bs[i].torque))]]

integrate_forces(bs, g, d) ==
    [i \in 1..Len(bs) |->
        IF bs[i].inv_mass = Zero THEN bs[i]
        ELSE [bs[i] EXCEPT
                !.velocity = VAdd(@, VScale(d, VAdd(g, VScale(bs[i].inv_mass, bs[i].force)))),
                !.angular_velocity = RAdd(@, RMul(RMul(d, bs[i].inv_I), bs[i].torque))]]

\* a loop "for x in xs: x.f()" over arbiters or joints from element k on:
\* [xs, bs]
RECURSIVE solver_loop(_, _, _, _, _)
solver_loop(xs, bs, k, inv_dt, which) ==
    IF k > Len(xs) THEN [xs |-> xs, bs |-> bs]
    ELSE LET next(x, bs1) == solver_loop([xs EXCEPT ![k] = x], bs1, k + 1, inv_dt, which)
             next_arb(r) == next(r.arb, r.bs)
             next_joint(r) == next(r.j, r.bs)
         IN  CASE which = "arb_pre" -> next_arb(Arbiter_pre_step(xs[k], bs, inv_dt))
               [] which = "arb_apply" -> next_arb(Arbiter_apply_impulse(xs[k], bs))
               [] which = "joint_pre" -> next_joint(Joint_pre_step(xs[k], bs, inv_dt))
               [] which = "joint_apply" -> next_joint(Joint_apply_impulse(xs[k], bs))

\* position integration that clears the force but forgets the torque
integrate_velocities_keep_torque(bs, d) ==
    [i \in 1..Len(bs) |->
        [bs[i] EXCEPT
            !.position = VAdd(@, VScale(d, bs[i].velocity)),
            !.rotation = RAdd(@, RMul(d, bs[i].angular_velocity)),
            !.force = VZero]]

integrate_velocities(bs, d) ==
    [i \in 1..Len(bs) |->
        [bs[i] EXCEPT
            !.position = VAdd(@, VScale(d, bs[i].velocity)),
            !.rotation = RAdd(@, RMul(d, bs[i].angular_velocity)),
            !.force = VZero,
            !.torque = Zero]]

\* the rounds of World.step from round k on: [arbs, js, bs]
RECURSIVE solver_rounds(_, _, _, _, _)
solver_rounds(arbs, js, bs, k, its) ==
    IF k >= its THEN [arbs |-> arbs, js |-> js, bs |-> bs]
    ELSE LET joints_applied(a, j) == solver_rounds(a.xs, j.xs, j.bs, k + 1, its)
             arbiters_applied(a) ==
                 joints_applied(a, solver_loop(js, a.bs, 1, Zero, "joint_apply"))
         IN  arbiters_applied(solver_loop(arbs, bs, 1, Zero, "arb_apply"))

\* World.step(d) as a whole, for a world whose bodies have id order id
World_step(arbs, js, bs, id, g, its, d) ==
    LET integrated(r) ==
            [arbiters |-> r.arbs, joints |-> r.js, bodies |-> integrate_velocities(r.bs, d)]
        joints_pre_stepped(a, j) == integrated(solver_rounds(a.xs, j.xs, j.bs, 0, its))
        arbiters_pre_stepped(a) ==
            joints_pre_stepped(a, solver_loop(js, a.bs, 1, inv_dt_of(d), "joint_pre"))
    IN  arbiters_pre_stepped(solver_loop(broadphase(arbs, id, bs), integrate_forces(bs, g, d),
                                         1, inv_dt_of(d), "arb_pre"))

(***************************************************************************)
(* Bounds and input sets                                                   *)
(***************************************************************************)
MaxSteps == 2
MaxEdits == 1

\* <<width and mass of the first body, mass of the second>>
BodyPairSet == {<<<<R(4, 1), R(2, 1)>>, Inf, One>>,
                <<<<R(2, 1), R(2, 1)>>, One, One>>,
                <<<<R(4, 1), R(2, 1)>>, Inf, Inf>>}
\* where and how the second body is launched; what the caller writes later
StartPosSet == {<<One, R(7, 4)>>, <<Zero, R(4, 1)>>}
StartVelSet == {<<One, RNeg(One)>>}
PosSet == StartPosSet \cup {<<R(2, 1), R(7, 4)>>}
VelSet == StartVelSet \cup {VZero}
ForceSet == {<<One, Zero>>}
TorqueSet == {One}
DtSet == {Zero, One}
GravitySet == {<<Zero, RNeg(One)>>}
IterationsSet == {1, 2}
AnchorSet == {VZero}

IdOrders(n) == {f \in [1..n -> 1..n] : \A a, b \in 1..n : a # b => f[a] # f[b]}

\* worlds as the demos build them: a first body left at the origin, then
\* bodies placed and launched through their position and velocity fields
BodyLists ==
    {<<Body(b[1], b[2]),
       [Body(<<R(2, 1), R(2, 1)>>, b[3]) EXCEPT !.position = p, !.velocity = v]>> :
        <<b, p, v>> \in BodyPairSet \X StartPosSet \X StartVelSet}

\* no joint, or one joint between the first two bodies (one of them dynamic)
JointLists(bs) ==
    {<<>>} \cup
    {<<Joint(bs, 1, 2, a)>> : a \in {x \in AnchorSet :
                                     bs[1].inv_mass # Zero \/ bs[2].inv_mass # Zero}}

\* no function is being called on its own
NoCall == [op |-> "none"]

Init ==
    /\ bodies \in BodyLists
    /\ joints \in JointLists(bodies)
    /\ arbiters = <<>>
    /\ ident \in IdOrders(Len(bodies))
    /\ gravity \in GravitySet
    /\ iterations \in IterationsSet
    /\ WARM_STARTING \in BOOLEAN
    /\ ACCUMULATE_IMPULSES \in BOOLEAN
    /\ POSITION_CORRECTION \in BOOLEAN
    /\ pc = "idle"
    /\ dt = Zero
    /\ round = 0
    /\ steps = 0
    /\ edits = 0
    /\ prev_arbiters = <<>>
    /\ prev_forces = <<>>
    /\ call = NoCall

(***************************************************************************)
(* The caller between steps: add_force and the settable fields of Body     *)
(***************************************************************************)
settings == <<WARM_STARTING, ACCUMULATE_IMPULSES, POSITION_CORRECTION>>
world_params == <<ident, gravity, iterations, settings, call>>
history == <<prev_arbiters, prev_forces>>

Edit(i, b) ==
    /\ pc = "idle"
    /\ edits < MaxEdits
    /\ bodies' = [bodies EXCEPT ![i] = b]
    /\ edits' = edits + 1
    /\ UNCHANGED <<joints, arbiters, world_params, pc, dt, round, steps, history>>

AddForce == \E i \in 1..Len(bodies), f \in ForceSet : Edit(i, add_force(bodies[i], f))

SetPosition ==
    \E i \in 1..Len(bodies), p \in PosSet : Edit(i, [bodies[i] EXCEPT !.position = p])

SetRotation == \E i \in 1..Len(bodies) : Edit(i, [bodies[i] EXCEPT !.rotation = Zero])

SetVelocity ==
    \E i \in 1..Len(bodies), v \in VelSet : Edit(i, [bodies[i] EXCEPT !.velocity = v])

SetTorque ==
    \E i \in 1..Len(bodies), t \in TorqueSet : Edit(i, [bodies[i] EXCEPT !.torque = t])

(***************************************************************************)
(* World.step, one action per phase                                        *)
(***************************************************************************)
\* step(dt) is entered; broadphase runs
Broadphase ==
    /\ pc = "idle"
    /\ steps < MaxSteps
    /\ \A i \in 1..Len(bodies) : bodies[i].rotation = Zero
    /\ \E d \in DtSet : dt' = d
    /\ arbiters' = broadphase(arbiters, ident, bodies)
    /\ pc' = "integrate_forces"
    /\ round' = 0
    /\ prev_arbiters' = arbiters
    /\ prev_forces' = [i \in 1..Len(bodies) |-> <<bodies[i].force, bodies[i].torque>>]
    /\ UNCHANGED <<bodies, joints, world_params, steps, edits>>

IntegrateForces ==
    /\ pc = "integrate_forces"
    /\ bodies' = integrate_forces(bodies, gravity, dt)
    /\ pc' = "pre_step_arbiters"
    /\ UNCHANGED <<joints, arbiters, world_params, dt, round, steps, edits, history>>

PreStepArbiters ==
    /\ pc = "pre_step_arbiters"
    /\ LET done(r) == arbiters' = r.xs /\ bodies' = r.bs
       IN  done(solver_loop(arbiters, bodies, 1, inv_dt_of(dt), "arb_pre"))
    /\ pc' = "pre_step_joints"
    /\ UNCHANGED <<joints, world_params, dt, round, steps, edits, history>>

PreStepJoints ==
    /\ pc = "pre_step_joints"
    /\ LET done(r) == joints' = r.xs /\ bodies' = r.bs
       IN  done(solver_loop(joints, bodies, 1, inv_dt_of(dt), "joint_pre"))
    /\ pc' = IF iterations > 0 THEN "apply_arbiters" ELSE "integrate_velocities"
    /\ UNCHANGED <<arbiters, world_params, dt, round, steps, edits, history>>

ApplyArbiters ==
    /\ pc = "apply_arbiters"
    /\ LET done(r) == arbiters' = r.xs /\ bodies' = r.bs
       IN  done(solver_loop(arbiters, bodies, 1, Zero, "arb_apply"))
    /\ pc' = "apply_joints"
    /\ UNCHANGED <<joints, world_params, dt, round, steps, edits, history>>

\* a solver that leaves the rounds after the first, whatever `iterations` is
ApplyJoints_one_round ==
    /\ pc = "apply_joints"
    /\ LET done(r) == joints' = r.xs /\ bodies' = r.bs
       IN  done(solver_loop(joints, bodies, 1, Zero, "joint_apply"))
    /\ round' = round + 1
    /\ pc' = "integrate_velocities"
    /\ UNCHANGED <<arbiters, world_params, dt, steps, edits, history>>

ApplyJoints ==
    /\ pc = "apply_joints"
    /\ LET done(r) == joints' = r.xs /\ bodies' = r.bs
       IN  done(solver_loop(joints, bodies, 1, Zero, "joint_apply"))
    /\ round' = round + 1
    /\ pc' = IF round + 1 < iterations THEN "apply_arbiters" ELSE "integrate_velocities"
    /\ UNCHANGED <<arbiters, world_params, dt, steps, edits, history>>

\* positions are integrated, forces are cleared, step returns
IntegrateVelocities ==
    /\ pc = "integrate_velocities"
    /\ bodies' = integrate_velocities(bodies, dt)
    /\ pc' = "idle"
    /\ steps' = steps + 1
    /\ UNCHANGED <<joints, arbiters, world_params, dt, round, edits, history>>

Next ==
    \/ AddForce
    \/ SetPosition
    \/ SetRotation
    \/ SetVelocity
    \/ SetTorque
    \/ Broadphase
    \/ IntegrateForces
    \/ PreStepArbiters
    \/ PreStepJoints
    \/ ApplyArbiters
    \/ ApplyJoints
    \/ IntegrateVelocities

Spec == Init /\ [][Next]_vars

(***************************************************************************)
(* Functions called on their own, outside a step: the constructors and the *)
(* pure functions, each applied to arguments drawn from small sets         *)
(***************************************************************************)
WidthSet == {<<R(2, 1), R(2, 1)>>, <<R(4, 1), R(2, 1)>>}
MassSet == {Inf, One, R(2, 1), R(3, 1), Zero, RNeg(One), RNeg(R(2, 1))}

\* an empty world in which nothing steps
InitCalls ==
    /\ bodies = <<>>
    /\ joints = <<>>
    /\ arbiters = <<>>
    /\ ident = <<>>
    /\ gravity = VZero
    /\ iterations = 0
    /\ WARM_STARTING = TRUE
    /\ ACCUMULATE_IMPULSES = TRUE
    /\ POSITION_CORRECTION = TRUE
    /\ pc = "idle"
    /\ dt = Zero
    /\ round = 0
    /\ steps = 0
    /\ edits = 0
    /\ prev_arbiters = <<>>
    /\ prev_forces = <<>>
    /\ call = NoCall

world == <<bodies, joints, arbiters, ident, gravity, iterations, settings, pc, dt,
           round, steps, edits, history>>

\* Body(width, mass)
CallBody ==
    /\ call = NoCall
    /\ \E width \in WidthSet, mass \in MassSet :
          call' = [op |-> "Body", width |-> width, mass |-> mass,
                   result |-> Body(width, mass)]
    /\ UNCHANGED world

\* three boxes at the origin, as the self-test of arbiter.py builds its two
KeyBodies == [n \in 1..3 |-> Body(<<R(2, 1), R(2, 1)>>, One)]

\* ArbiterKey(b_i, b_j) and ArbiterKey(b_j, b_i), a dictionary holding an
\* arbiter under the first, looked up and popped under the second, and the
\* key of another pair (b_k, b_l)
CallArbiterKey ==
    /\ call = NoCall
    /\ \E id \in IdOrders(3), i, j, k, l \in 1..3 :
          /\ i # j
          /\ k # l
          /\ LET looked_up(d, found) ==
                     call' = [op |-> "ArbiterKey", ident |-> id,
                              pair |-> <<i, j>>, other |-> <<k, l>>,
                              ak1 |-> ArbiterKey(id, i, j),
                              ak2 |-> ArbiterKey(id, j, i),
                              ak3 |-> ArbiterKey(id, k, l),
                              hash1 |-> ArbiterKey_hash(id, ArbiterKey(id, i, j)),
                              hash2 |-> ArbiterKey_hash(id, ArbiterKey(id, j, i)),
                              found |-> found,
                              popped |-> IF found # 0 THEN Remove(d, found) ELSE d]
                 stored(d) == looked_up(d, arbiter_index(d, id, j, i))
             IN  stored(<<Arbiter(id, KeyBodies, i, j)>>)
    /\ UNCHANGED world

RotationSet == {Zero, Angle_4_3, RNeg(Angle_4_3), Angle_3_4}
CollidePosSet == {<<Zero, R(3, 2)>>, <<R(5, 2), Zero>>, <<R(23, 10), R(23, 10)>>,
                  <<R(2, 1), RNeg(R(2, 1))>>, <<RNeg(R(3, 1)), One>>,
                  <<Zero, R(7, 2)>>}

\* collide(body_a, body_b) for two boxes placed and turned by the caller,
\* with the four face gaps collide computes on the way
CallCollide ==
    /\ call = NoCall
    /\ \E w_a \in WidthSet, w_b \in WidthSet, rot_a \in {Zero, Angle_4_3},
          rot_b \in RotationSet, pos_b \in CollidePosSet :
          LET body_a == [Body(w_a, Inf) EXCEPT !.rotation = rot_a]
              body_b == [Body(w_b, One) EXCEPT !.position = pos_b, !.rotation = rot_b]
          IN  call' = [op |-> "collide", body_a |-> body_a, body_b |-> body_b,
                       face |-> face_gaps(body_a, body_b),
                       result |-> collide(body_a, body_b)]
    /\ UNCHANGED world

JointPosSet == {VZero, <<R(5, 2), Zero>>, <<RNeg(R(3, 1)), One>>}
JointAnchorSet == {VZero, <<One, R(1, 2)>>, <<R(1, 3), R(1, 2)>>, <<R(1, 7), R(2, 3)>>}

\* Joint(body_1, body_2, anchor) for two bodies placed and turned by the
\* caller, with the anchor points p1, p2 that pre_step rebuilds from it
CallJoint ==
    /\ call = NoCall
    /\ \E pos_1 \in JointPosSet, pos_2 \in JointPosSet, rot_1 \in RotationSet,
          rot_2 \in RotationSet, anchor \in JointAnchorSet :
          LET bs == <<[Body(<<R(2, 1), R(2, 1)>>, Inf)
                          EXCEPT !.position = pos_1, !.rotation = rot_1],
                      [Body(<<R(2, 1), R(2, 1)>>, One)
                          EXCEPT !.position = pos_2, !.rotation = rot_2]>>
          IN  call' = [op |-> "Joint", bodies |-> bs, anchor |-> anchor,
                       result |-> Joint(bs, 1, 2, anchor),
                       p |-> joint_anchors(Joint(bs, 1, 2, anchor), bs)]
    /\ UNCHANGED world

VertexSet == {VZero, <<One, Zero>>, <<One, R(3, 2)>>, <<RNeg(One), R(2, 1)>>,
              <<R(2, 1), RNeg(R(1, 2))>>}
NormalSet == {<<One, Zero>>, <<Zero, One>>, <<RNeg(One), Zero>>, <<R(3, 5), R(4, 5)>>}
OffsetSet == {Zero, One, RNeg(One)}

\* clip_segment_to_line(v_in, normal, offset, clip_edge) for a segment of two
\* vertices of an incident edge
CallClip ==
    /\ call = NoCall
    /\ \E v_0 \in VertexSet, v_1 \in VertexSet, normal \in NormalSet,
          offset \in OffsetSet, clip_edge \in {EDGE_1, EDGE_3} :
          LET v_in == <<ClipVertex(v_0, <<NO_EDGE, NO_EDGE, EDGE_4, EDGE_1>>),
                        ClipVertex(v_1, <<NO_EDGE, NO_EDGE, EDGE_1, EDGE_2>>)>>
          IN  call' = [op |-> "clip_segment_to_line", v_in |-> v_in,
                       normal |-> normal, offset |-> offset, clip_edge |-> clip_edge,
                       result |-> clip_segment_to_line(v_in, normal, offset, clip_edge)]
    /\ UNCHANGED world

DynamicMassSet == {One, R(2, 1), R(3, 1)}
ImpulseVelSet == {VZero, <<One, RNeg(One)>>}
AccumulatedSet == {VZero, <<R(1, 3), R(1, 2)>>, <<RNeg(R(1, 7)), One>>}
ImpulseOps == {"Arbiter.pre_step", "Arbiter.apply_impulse",
               "Joint.pre_step", "Joint.apply_impulse"}

\* the bodies before and after one of the solver's operations on an arbiter
\* arb or a joint j (apply_impulse after the pre_step it needs), or after the
\* force integration of World.step under gravity (0, -1) with dt = 1
momentum_call(op, bs, arb, j) ==
    LET arb_applied(pre) ==
            [before |-> pre.bs, after |-> Arbiter_apply_impulse(pre.arb, pre.bs).bs]
        joint_applied(pre) ==
            [before |-> pre.bs, after |-> Joint_apply_impulse(pre.j, pre.bs).bs]
    IN  CASE op = "Arbiter.pre_step" ->
                [before |-> bs, after |-> Arbiter_pre_step(arb, bs, One).bs]
          [] op = "Arbiter.apply_impulse" -> arb_applied(Arbiter_pre_step(arb, bs, One))
          [] op = "Joint.pre_step" ->
                [before |-> bs, after |-> Joint_pre_step(j, bs, One).bs]
          [] op = "Joint.apply_impulse" -> joint_applied(Joint_pre_step(j, bs, One))
          [] op = "integrate_forces" ->
                [before |-> bs, after |-> integrate_forces(bs, <<Zero, RNeg(One)>>, One)]

\* one operation of the solver on two dynamic boxes that touch and are
\* joined, whose contacts and joint carry the accumulated impulse P
CallImpulse ==
    /\ call = NoCall
    /\ \E op \in ImpulseOps \cup {"integrate_forces"},
          mass_1 \in DynamicMassSet, mass_2 \in DynamicMassSet,
          v_1 \in ImpulseVelSet, v_2 \in ImpulseVelSet, P \in AccumulatedSet :
          LET bs == <<[Body(<<R(2, 1), R(2, 1)>>, mass_1) EXCEPT !.velocity = v_1],
                      [Body(<<R(2, 1), R(2, 1)>>, mass_2)
                          EXCEPT !.position = <<One, R(7, 4)>>, !.velocity = v_2]>>
              loaded(arb) ==
                  [arb EXCEPT !.contacts =
                      [k \in 1..Len(arb.contacts) |->
                          [arb.contacts[k] EXCEPT !.Pn = P[2], !.Pt = P[1]]]]
              ran(r) == call' = [op |-> op, P |-> P, before |-> r.before,
                                 after |-> r.after]
          IN  ran(momentum_call(op, bs, loaded(Arbiter(<<1, 2>>, bs, 1, 2)),
                                [Joint(bs, 1, 2, <<One, R(1, 2)>>) EXCEPT !.P = P]))
    /\ UNCHANGED world

\* the call returns
Return ==
    /\ call # NoCall
    /\ call' = NoCall
    /\ UNCHANGED world

NextCalls ==
    \/ CallBody
    \/ CallArbiterKey
    \/ CallCollide
    \/ CallJoint
    \/ CallClip
    \/ CallImpulse
    \/ Return

Calls == InitCalls /\ [][NextCalls]_vars

(***************************************************************************)
(* Properties                                                              *)
(***************************************************************************)
\* the arbiter of prev_arbiters for the same pair as arbiter a, as a set
PrevOf(a) ==
    {o \in {prev_arbiters[k] : k \in 1..Len(prev_arbiters)} :
        o.body_1 = a.body_1 /\ o.body_2 = a.body_2}

Arbs == {arbiters[k] : k \in 1..Len(arbiters)}
Contacts(a) == {a.contacts[n] : n \in 1..Len(a.contacts)}
JustAfterBroadphase == pc = "integrate_forces"

\* C1: right after Arbiter.update, every new contact whose edges equal the
\* edges of no contact of the arbiter's previous list has Pn = Pt = Pnb = 0.
C1_UnmatchedContactStartsAtZero ==
    JustAfterBroadphase =>
        \A a \in Arbs : \A o \in PrevOf(a) : \A c \in Contacts(a) :
            (\A c_old \in Contacts(o) : c_old.edges # c.edges)
                => (c.Pn = Zero /\ c.Pt = Zero /\ c.Pnb = Zero)

\* C2: right after Arbiter.update, a new contact whose edges equal those of a
\* contact of the previous list has that contact's Pn and Pt when
\* WARM_STARTING is on and Pn = Pt = 0 when it is off, at every list position.
C2_MatchedContactCarriesImpulse ==
    JustAfterBroadphase =>
        \A a \in Arbs : \A o \in PrevOf(a) : \A c \in Contacts(a) :
            \A m \in 1..Len(o.contacts) :
                o.contacts[m].edges = c.edges =>
                    IF WARM_STARTING
                    THEN c.Pn = o.contacts[m].Pn /\ c.Pt = o.contacts[m].Pt
                    ELSE c.Pn = Zero /\ c.Pt = Zero

\* a match at the second position of the old list carried a non-zero impulse
\* that differs from the impulse at the first position
C2_Witness ==
    /\ JustAfterBroadphase
    /\ WARM_STARTING
    /\ \E a \in Arbs : \E o \in PrevOf(a) : \E c \in Contacts(a) :
          /\ Len(o.contacts) = 2
          /\ o.contacts[2].edges = c.edges
          /\ o.contacts[2].Pn # Zero
          /\ o.contacts[2].Pn # o.contacts[1].Pn
          /\ c.Pn = o.contacts[2].Pn

\* C3: with ACCUMULATE_IMPULSES on, every contact of every arbiter has Pn >= 0.
C3_NormalImpulseNonNegative ==
    ACCUMULATE_IMPULSES => \A a \in Arbs : \A c \in Contacts(a) : RLe(Zero, c.Pn)

\* after apply_impulse one contact of an arbiter is held at 0 by the clamp
\* while another one pushes
C3_Witness ==
    /\ ACCUMULATE_IMPULSES
    /\ pc = "apply_joints"
    /\ \E a \in Arbs : \E c, d \in Contacts(a) : c.Pn = Zero /\ RGt(d.Pn, Zero)

\* C4: after Arbiter.apply_impulse every contact has
\* -friction * Pn <= Pt <= friction * Pn.
C4_FrictionWithinCone ==
    pc = "apply_joints" =>
        \A a \in Arbs : \A c \in Contacts(a) :
            /\ RLe(RNeg(RMul(a.friction, c.Pn)), c.Pt)
            /\ RLe(c.Pt, RMul(a.friction, c.Pn))

\* the clamp is active: a non-zero friction impulse sits on the cone
C4_Witness ==
    /\ pc = "apply_joints"
    /\ ACCUMULATE_IMPULSES
    /\ \E a \in Arbs : \E c \in Contacts(a) :
          c.Pt # Zero /\ RAbs(c.Pt) = RMul(a.friction, c.Pn)

Static(b) == IsInf(b.mass)
Pairs == {<<i, j>> \in (1..Len(bodies)) \X (1..Len(bodies)) : i < j}
HasArbiter(i, j) ==
    \E a \in Arbs : <<a.body_1, a.body_2>> \in {<<i, j>>, <<j, i>>}

\* C5: right after World.broadphase the arbiter map holds an entry for a pair
\* of bodies exactly when the two are not both static and collide, in either
\* argument order, yields a contact; one entry per pair, none without contacts.
C5_ArbiterIffContact ==
    JustAfterBroadphase =>
        /\ \A q \in Pairs :
              HasArbiter(q[1], q[2]) <=>
                  /\ ~(Static(bodies[q[1]]) /\ Static(bodies[q[2]]))
                  /\ Len(collide(bodies[q[1]], bodies[q[2]])) > 0
                  /\ Len(collide(bodies[q[2]], bodies[q[1]])) > 0
        /\ \A q \in Pairs :
              ~(Static(bodies[q[1]]) /\ Static(bodies[q[2]])) =>
                  (Len(collide(bodies[q[1]], bodies[q[2]])) > 0
                      <=> Len(collide(bodies[q[2]], bodies[q[1]])) > 0)
        /\ \A a \in Arbs : Len(a.contacts) > 0
        /\ \A k, m \in 1..Len(arbiters) :
              k # m => {arbiters[k].body_1, arbiters[k].body_2}
                         # {arbiters[m].body_1, arbiters[m].body_2}

\* a pair that had an arbiter lost it in the broadphase of the next step
C5_Witness ==
    /\ JustAfterBroadphase
    /\ \E o \in {prev_arbiters[k] : k \in 1..Len(prev_arbiters)} :
          ~HasArbiter(o.body_1, o.body_2)

\* a caller write to a velocity field (the only step that is not add_force
\* or a part of World.step and may change a velocity)
CallerSetsVelocity ==
    /\ pc = "idle"
    /\ pc' = "idle"
    /\ \E i \in 1..Len(bodies), v \in VelSet :
          bodies' = [bodies EXCEPT ![i] = [bodies[i] EXCEPT !.velocity = v]]

\* C6: a body built with infinite mass has inv_mass = 0 and inv_I = 0, and
\* add_force and every phase of World.step leave its velocity and angular
\* velocity unchanged.
C6_StaticVelocityFixed ==
    [][\A i \in 1..Len(bodies) :
          Static(bodies[i]) =>
              /\ bodies[i].inv_mass = Zero /\ bodies[i].inv_I = Zero
              /\ bodies'[i].inv_mass = Zero /\ bodies'[i].inv_I = Zero
              /\ \/ CallerSetsVelocity
                 \/ /\ bodies'[i].velocity = bodies[i].velocity
                    /\ bodies'[i].angular_velocity = bodies[i].angular_velocity]_vars

\* a static body that was pushed with add_force, carries a contact impulse
\* and hangs on a joint with a dynamic body, at the end of the solver rounds
C6_Witness ==
    /\ pc = "integrate_velocities"
    /\ \E i \in 1..Len(bodies) :
          /\ Static(bodies[i])
          /\ bodies[i].force # VZero
          /\ \E a \in Arbs : i \in {a.body_1, a.body_2}
                             /\ \E c \in Contacts(a) : RGt(c.Pn, Zero)
          /\ \E k \in 1..Len(joints) : i \in {joints[k].body_1, joints[k].body_2}
                                       /\ joints[k].P # VZero

\* C7: World.step leaves the position and rotation of every static body
\* unchanged, whatever its caller-set pose and velocity.
C7_StaticBodyNeverMoves ==
    [][(pc # "idle" \/ pc' # "idle") =>
          \A i \in 1..Len(bodies) :
              Static(bodies[i]) =>
                  /\ bodies'[i].position = bodies[i].position
                  /\ bodies'[i].rotation = bodies[i].rotation]_vars

Velocities(bs) == [i \in 1..Len(bs) |-> <<bs[i].velocity, bs[i].angular_velocity>>]
Poses(bs) == [i \in 1..Len(bs) |-> <<bs[i].position, bs[i].rotation>>]

\* C8: World.step runs broadphase, force integration, the arbiters' pre_step,
\* the joints' pre_step, then exactly `iterations` rounds of all arbiters'
\* apply_impulse followed by all joints' apply_impulse, then position
\* integration; no velocity changes during broadphase and no pose changes
\* before the last round is over.
C8_PhaseOrder ==
    [][/\ (pc = "idle" /\ pc' # "idle") =>
             /\ pc' = "integrate_forces"
             /\ Velocities(bodies') = Velocities(bodies)
       /\ pc = "integrate_forces" =>
             pc' = "pre_step_arbiters" /\ arbiters' = arbiters /\ joints' = joints
       /\ pc = "pre_step_arbiters" => pc' = "pre_step_joints" /\ joints' = joints
       /\ pc = "pre_step_joints" =>
             pc' = "apply_arbiters" /\ round' = 0 /\ arbiters' = arbiters
       /\ pc = "apply_arbiters" =>
             pc' = "apply_joints" /\ round' = round /\ joints' = joints
       /\ pc = "apply_joints" =>
             /\ round' = round + 1
             /\ arbiters' = arbiters
             /\ pc' = IF round' = iterations THEN "integrate_velocities"
                                             ELSE "apply_arbiters"
       /\ pc = "integrate_velocities" =>
             /\ round = iterations
             /\ pc' = "idle"
             /\ Velocities(bodies') = Velocities(bodies)
             /\ arbiters' = arbiters /\ joints' = joints
       /\ pc \notin {"idle", "integrate_velocities"} => Poses(bodies') = Poses(bodies)
       /\ pc \notin {"idle", "pre_step_arbiters", "apply_arbiters"} => arbiters' = arbiters
      ]_vars

\* the last of two rounds is over in a world with an arbiter and a joint whose
\* impulses both changed a velocity
C8_Witness ==
    /\ pc = "integrate_velocities"
    /\ round = 2
    /\ \E a \in Arbs : \E c \in Contacts(a) : RGt(c.Pn, Zero)
    /\ \E k \in 1..Len(joints) : joints[k].P # VZero

\* C9: the bodies World.step(dt) produces do not depend on which body of a
\* pair the id() order makes body_1 of the Arbiter.
C9_StepIndependentOfLabels ==
    (/\ pc = "idle"
     /\ arbiters = <<>>
     /\ \A i \in 1..Len(bodies) : bodies[i].rotation = Zero)
        => \A d \in DtSet : \A id \in IdOrders(Len(bodies)) :
              World_step(<<>>, joints, bodies, id, gravity, iterations, d).bodies
                  = World_step(<<>>, joints, bodies, ident, gravity, iterations, d).bodies

\* C10: when World.step returns, every body, dynamic or static, has
\* force = (0, 0) and torque = 0.
C10_ForcesClearedByStep ==
    [][pc = "integrate_velocities" =>
          \A i \in 1..Len(bodies) :
              bodies'[i].force = VZero /\ bodies'[i].torque = Zero]_vars

\* a step has returned that was entered with a torque on a static body, which
\* force integration skips, and the torque is gone
C10_Witness ==
    /\ pc = "idle"
    /\ steps > 0
    /\ \E i \in 1..Len(bodies) :
          /\ Static(bodies[i])
          /\ prev_forces[i][2] # Zero
          /\ bodies[i].torque = Zero

\* relative velocity of the two anchor points, from the linear and the
\* angular velocity of both bodies: (v2 + w2 x r2) - (v1 + w1 x r1)
anchor_dv(j, bs) ==
    VSub(VAdd(bs[j.body_2].velocity, cross_sv(bs[j.body_2].angular_velocity, j.r2)),
         VAdd(bs[j.body_1].velocity, cross_sv(bs[j.body_1].angular_velocity, j.r1)))

\* C15: Joint.apply_impulse takes the relative velocity at the anchor from
\* the linear and angular velocity of both bodies, applies the impulse
\* M * (bias - dv - softness * P) to the two bodies and adds it to P.
C15_JointImpulseFromBothBodies ==
    [][(pc = "apply_joints" /\ Len(joints) = 1) =>
        LET j == joints[1]
            impulse == MatVec(j.M, VSub(VSub(j.bias, anchor_dv(j, bodies)),
                                        VScale(j.softness, j.P)))
        IN  /\ joints'[1].P = VAdd(j.P, impulse)
            /\ bodies' = apply_pair(bodies, j.body_1, j.body_2, j.r1, j.r2, impulse)]_vars

\* C16: with WARM_STARTING, Joint.pre_step leaves P as it is and applies it
\* again to both bodies; without it, pre_step sets P to zero and applies
\* nothing. Joint.apply_impulse adds to P exactly the impulse it applies, and
\* nothing else writes P: P after a step is P before it (or zero) plus the
\* impulses applied in the step.
C16_JointImpulseHistory ==
    [][/\ (pc = "pre_step_joints" /\ Len(joints) = 1) =>
            IF WARM_STARTING
            THEN /\ joints'[1].P = joints[1].P
                 /\ bodies' = apply_pair(bodies, joints[1].body_1, joints[1].body_2,
                                         joints'[1].r1, joints'[1].r2, joints[1].P)
            ELSE /\ joints'[1].P = VZero
                 /\ bodies' = bodies
       /\ (pc = "apply_joints" /\ Len(joints) = 1) =>
            bodies' = apply_pair(bodies, joints[1].body_1, joints[1].body_2,
                                 joints[1].r1, joints[1].r2,
                                 VSub(joints'[1].P, joints[1].P))
       /\ (pc \notin {"pre_step_joints", "apply_joints"} /\ Len(joints) = 1) =>
            joints'[1].P = joints[1].P]_vars

\* the second step of a world has just warm started its joint with the
\* impulse the first step left in P
C16_Witness ==
    /\ WARM_STARTING
    /\ steps = 1
    /\ pc = "apply_arbiters"
    /\ round = 0
    /\ Len(joints) = 1
    /\ joints[1].P # VZero
    /\ bodies[joints[1].body_1].inv_mass # Zero
    /\ bodies[joints[1].body_2].inv_mass # Zero

(***************************************************************************)
(* Properties of the functions called on their own                         *)
(***************************************************************************)
\* the outcome the specification asks of a rejected construction
ConfigurationError == [error |-> "configuration error"]

\* C11: constructing a Body with a finite mass that is zero or negative is
\* rejected with a configuration error; no Body with an inv_mass or inv_I
\* derived from such a mass is created.
C11_NonPositiveMassRejected ==
    (call.op = "Body" /\ ~IsInf(call.mass) /\ RLe(call.mass, Zero))
        => call.result = ConfigurationError

\* C12: the keys built from a pair in its two orders are equal and have equal
\* hashes, an arbiter stored under one order is found and removed under the
\* other, and the keys of two different unordered pairs are not equal.
C12_KeyIgnoresOrder ==
    call.op = "ArbiterKey" =>
        /\ ArbiterKey_eq(call.ak1, call.ak2)
        /\ call.hash1 = call.hash2
        /\ call.found # 0
        /\ call.popped = <<>>
        /\ ({call.pair[1], call.pair[2]} # {call.other[1], call.other[2]}
                => ~ArbiterKey_eq(call.ak1, call.ak3))

\* the pair was given with the larger id first (ArbiterKey swaps it) and the
\* other pair shares one body with it
C12_Witness ==
    /\ call.op = "ArbiterKey"
    /\ call.ident[call.pair[1]] > call.ident[call.pair[2]]
    /\ call.ak1 = <<call.pair[2], call.pair[1]>>
    /\ call.other[1] = call.pair[1]
    /\ call.other[2] # call.pair[2]
    /\ call.found = 1

\* C13: collide returns no contact whenever one of the four projected face
\* gaps (two on the axes of box a, two on the axes of box b) is positive,
\* whatever the sizes, positions and rotations of the two boxes.
C13_PositiveGapNoContact ==
    (call.op = "collide" /\ \E n \in 1..4 : RGt(call.face[n], Zero))
        => call.result = <<>>

\* turned boxes that no axis of box a separates and an axis of box b does
C13_Witness ==
    /\ call.op = "collide"
    /\ call.body_b.rotation # call.body_a.rotation
    /\ RLe(call.face[1], Zero)
    /\ RLe(call.face[2], Zero)
    /\ RGt(call.face[3], Zero) \/ RGt(call.face[4], Zero)
    /\ call.result = <<>>

\* the two vectors differ by at most tol in each coordinate
Near(u, v, tol) ==
    /\ RLe(RAbs(RSub(u[1], v[1])), tol)
    /\ RLe(RAbs(RSub(u[2], v[2])), tol)

\* what the rounding of the two matrix products can add up to: each dot
\* product rounds two products, and the second one also turns the error of
\* the first
RoundTripTol == R(2, 1000)

ClipDistance(n) == RSub(Dot(call.normal, call.v_in[n].v), call.offset)

\* C17: clip_segment_to_line returns at most 2 vertices for every two-vertex
\* segment, normal and offset (its assertion holds): a vertex is kept when
\* its distance is <= 0 and one interpolated vertex is added only when the
\* two distances have strictly opposite signs; collide returns at most 2
\* contacts.
C17_ClipYieldsAtMostTwo ==
    /\ call.op = "clip_segment_to_line" =>
            /\ Len(call.result) <= 2
            /\ Len(call.result) >=
                  (IF RLe(ClipDistance(1), Zero) THEN 1 ELSE 0)
                  + (IF RLe(ClipDistance(2), Zero) THEN 1 ELSE 0)
            /\ Len(call.result) <=
                  (IF RLe(ClipDistance(1), Zero) THEN 1 ELSE 0)
                  + (IF RLe(ClipDistance(2), Zero) THEN 1 ELSE 0)
                  + (IF \/ RLt(ClipDistance(1), Zero) /\ RGt(ClipDistance(2), Zero)
                        \/ RGt(ClipDistance(1), Zero) /\ RLt(ClipDistance(2), Zero)
                     THEN 1 ELSE 0)
    /\ call.op = "collide" => Len(call.result) <= 2

\* a segment that crosses the clip line obliquely: its first vertex is kept,
\* the second is replaced by the interpolated one
C17_Witness ==
    /\ call.op = "clip_segment_to_line"
    /\ RLt(ClipDistance(1), Zero)
    /\ RGt(ClipDistance(2), Zero)
    /\ call.normal[1] # Zero
    /\ call.normal[2] # Zero
    /\ Len(call.result) = 2
    /\ call.result[1] = call.v_in[1]
    /\ call.result[2].edges[2] = call.clip_edge
    /\ call.result[2].v \notin {call.v_in[1].v, call.v_in[2].v}

\* total linear momentum mass_1 * velocity_1 + mass_2 * velocity_2 of a pair
Momentum(bs) == VAdd(VScale(bs[1].mass, bs[1].velocity),
                     VScale(bs[2].mass, bs[2].velocity))

\* what the rounding of the products inv_mass * P and mass * velocity can
\* add up to over the impulses of one operation
MomentumTol == R(2, 100)

====
